---- MODULE Spec2Model ----
(***************************************************************************)
(* summary4ai: walk a directory, parse every .rs file with syn and print   *)
(* the skeleton (signatures, visibility, doc comments) of its top-level    *)
(* items.  Model of src/main.rs.                                           *)
(*                                                                         *)
(* Text is modelled as TLA+ strings, byte for byte.  A token stream is a   *)
(* sequence of token strings (a parenthesised or bracketed group is one    *)
(* token, printed without inner padding); its Display joins the tokens     *)
(* with single spaces.  `out` is the sequence of lines written to          *)
(* standard output, one element per println! (a trailing print!... group   *)
(* that ends in println! is one line).                                     *)
(***************************************************************************)
EXTENDS Integers, Sequences, FiniteSets, TLC

VARIABLES
    root,     \* env::args().nth(1): the directory to scan, as given
    walked,   \* entries the directory walk has produced so far, in order
    pc,       \* position of main: "walk","read","parse","header","items","done","failed"
    file,     \* the parsed syn::File of the current iteration (its items)
    k,        \* index of the next item of file.items to print
    out,      \* standard output: the lines written so far
    err,      \* diagnostic stream: the error report of main, "" if none
    exit      \* process exit status, -1 while running

vars == <<root, walked, pc, file, k, out, err, exit>>

(***************************************************************************)
(* Bounds of the model.                                                    *)
(***************************************************************************)
MaxEntries == 3     \* entries a walk yields (files, other files, walk errors)
MaxItems == 3       \* top-level items of a file whose item order is examined

(***************************************************************************)
(* String helpers (std and proc_macro2 behaviour the program relies on).   *)
(***************************************************************************)
RECURSIVE Repeat(_, _)
Repeat(s, n) == IF n = 0 THEN "" ELSE s \o Repeat(s, n - 1)

StartsWith(s, p) == Len(s) >= Len(p) /\ SubSeq(s, 1, Len(p)) = p

EndsWith(s, p) == Len(s) >= Len(p) /\ SubSeq(s, Len(s) - Len(p) + 1, Len(s)) = p

Contains(s, p) == \E i \in 1..(Len(s) - Len(p) + 1) : SubSeq(s, i, i + Len(p) - 1) = p

\* str::trim_start_matches: strips the prefix repeatedly
RECURSIVE trim_start_matches(_, _)
trim_start_matches(s, p) ==
    IF StartsWith(s, p) THEN trim_start_matches(SubSeq(s, Len(p) + 1, Len(s)), p) ELSE s

\* TokenStream's Display / to_string: the tokens separated by one space
RECURSIVE to_string(_)
to_string(toks) ==
    IF toks = <<>> THEN ""
    ELSE IF Len(toks) = 1 THEN toks[1]
    ELSE toks[1] \o " " \o to_string(Tail(toks))

\* a Punctuated<_, Token![,]> list as tokens: a comma after every element but
\* the last, and after the last one too when the source has a trailing comma
RECURSIVE punctuated(_, _)
punctuated(elems, trailing) ==
    IF elems = <<>> THEN <<>>
    ELSE IF Len(elems) = 1 THEN elems[1] \o (IF trailing THEN <<",">> ELSE <<>>)
    ELSE elems[1] \o <<",">> \o punctuated(Tail(elems), trailing)

\* index of the first occurrence of the character c in s, 0 if none
IndexOf(s, c) ==
    LET hits == { i \in 1..Len(s) : SubSeq(s, i, i) = c }
    IN  IF hits = {} THEN 0 ELSE CHOOSE i \in hits : \A j \in hits : i <= j

\* index of the last occurrence of the character c in s, 0 if none
LastIndexOf(s, c) ==
    LET hits == { i \in 1..Len(s) : SubSeq(s, i, i) = c }
    IN  IF hits = {} THEN 0 ELSE CHOOSE i \in hits : \A j \in hits : j <= i

(***************************************************************************)
(* String literals.  The alphabet of the model is printable ASCII (without *)
(* the grave accent, which a TLA+ string cannot hold) plus tab, line feed  *)
(* and carriage return.                                                    *)
(***************************************************************************)
AsciiLow == " !\"#$%&'()*+,-./0123456789:;<=>?@ABCDEFGHIJKLMNOPQRSTUVWXYZ[\\]^_"
AsciiHigh == "abcdefghijklmnopqrstuvwxyz{|}~"

Chr(code) ==
    CASE code = 9 -> "\t"
      [] code = 10 -> "\n"
      [] code = 13 -> "\r"
      [] code \in 32..95 -> SubSeq(AsciiLow, code - 31, code - 31)
      [] code \in 97..126 -> SubSeq(AsciiHigh, code - 96, code - 96)

HexDigit(c) ==
    LET lower == IndexOf("0123456789abcdef", c)
    IN  IF lower > 0 THEN lower - 1 ELSE IndexOf("0123456789ABCDEF", c) - 1

\* backslash_u: the value of the hex digits of a \u{...} escape; a `_` between
\* the digits is skipped
RECURSIVE HexValue(_)
HexValue(s) ==
    IF s = "" THEN 0
    ELSE LET last == SubSeq(s, Len(s), Len(s))
             front == SubSeq(s, 1, Len(s) - 1)
         IN  IF last = "_" /\ front # "" THEN HexValue(front)
             ELSE 16 * HexValue(front) + HexDigit(last)

RECURSIVE SkipWhitespace(_)
SkipWhitespace(s) ==
    IF s # "" /\ SubSeq(s, 1, 1) \in {" ", "\t", "\n", "\r"}
    THEN SkipWhitespace(SubSeq(s, 2, Len(s))) ELSE s

\* parse_lit_str_cooked, from behind the opening quote: the content up to the
\* closing quote (what follows it is the suffix), escapes resolved, a CR LF read
\* as LF, a backslash before a line end swallowing the white space after it
RECURSIVE Unescape(_)
Unescape(s) ==
    IF s = "" \/ SubSeq(s, 1, 1) = "\"" THEN ""
    ELSE IF Len(s) >= 2 /\ SubSeq(s, 1, 2) = "\r\n" THEN "\n" \o Unescape(SubSeq(s, 3, Len(s)))
    ELSE IF SubSeq(s, 1, 1) # "\\" THEN SubSeq(s, 1, 1) \o Unescape(SubSeq(s, 2, Len(s)))
    ELSE LET d == SubSeq(s, 2, 2)
             rest == SubSeq(s, 3, Len(s))
         IN  CASE d = "n" -> "\n" \o Unescape(rest)
               [] d = "t" -> "\t" \o Unescape(rest)
               [] d = "r" -> "\r" \o Unescape(rest)
               [] d \in {"\\", "\"", "'"} -> d \o Unescape(rest)
               [] d = "x" -> Chr(16 * HexDigit(SubSeq(s, 3, 3)) + HexDigit(SubSeq(s, 4, 4)))
                             \o Unescape(SubSeq(s, 5, Len(s)))
               [] d = "u" -> LET close == IndexOf(s, "}")
                             IN  Chr(HexValue(SubSeq(s, 4, close - 1)))
                                 \o Unescape(SubSeq(s, close + 1, Len(s)))
               [] d \in {"\n", "\r"} -> Unescape(SkipWhitespace(rest))

\* LitStr::value of a string literal token, "cooked" or r"raw" / r#"raw"#, with
\* or without a suffix: a raw literal ends at the last quote of the token
str_value(token) ==
    IF StartsWith(token, "r")
    THEN SubSeq(token, IndexOf(token, "\"") + 1, LastIndexOf(token, "\"") - 1)
    ELSE Unescape(SubSeq(token, 2, Len(token)))

\* char::escape_debug over a text, as Literal::string applies it (`'` is kept)
RECURSIVE Escape(_)
Escape(text) ==
    IF text = "" THEN ""
    ELSE LET c == SubSeq(text, 1, 1)
         IN  (CASE c = "\"" -> "\\\""
                [] c = "\\" -> "\\\\"
                [] c = "\n" -> "\\n"
                [] c = "\t" -> "\\t"
                [] c = "\r" -> "\\r"
                [] OTHER -> c)
             \o Escape(SubSeq(text, 2, Len(text)))

\* Literal::string: the literal token of a text
string_literal(text) == "\"" \o Escape(text) \o "\""

RECURSIVE Concat(_)
Concat(seqs) == IF seqs = <<>> THEN <<>> ELSE Head(seqs) \o Concat(Tail(seqs))

(***************************************************************************)
(* The printer.  Every print_* operator returns the lines it writes.       *)
(***************************************************************************)
indent(level) == Repeat("    ", level)

\* ToTokens of syn::Meta: `path`, `path (args)` / `path [args]` / `path { args }`,
\* or `path = expr`, the expression with its tokens as written (a string literal
\* keeps its escapes and its r prefix)
meta_tokens(a) ==
    CASE a.meta = "Path" -> <<a.path>>
      [] a.meta = "List" ->
            <<a.path>> \o (CASE a.delim = "(" -> <<"(" \o to_string(a.args) \o ")">>
                             [] a.delim = "[" -> <<"[" \o to_string(a.args) \o "]">>
                             [] a.delim = "{" -> <<"{">> \o a.args \o <<"}">>)
      [] a.meta = "NameValue" -> <<a.path, "=">> \o a.expr

\* ToTokens of one outer attribute: `#` and the bracket group of its meta
attr_tokens(a) == <<"#", "[" \o to_string(meta_tokens(a)) \o "]">>

RECURSIVE attrs_tokens(_)
attrs_tokens(attrs) ==
    IF attrs = <<>> THEN <<>> ELSE attr_tokens(Head(attrs)) \o attrs_tokens(Tail(attrs))

RECURSIVE print_doc_attrs(_, _)
print_doc_attrs(attrs, indent_level) ==
    IF attrs = <<>> THEN <<>>
    ELSE LET attr == Head(attrs)
             rest == print_doc_attrs(Tail(attrs), indent_level)
         IN  IF attr.path # "doc" THEN rest
             ELSE IF attr.meta = "NameValue" /\ attr.lit = "Str"
                  THEN <<indent(indent_level) \o "/// " \o str_value(attr.expr[1])>> \o rest
                  ELSE rest

\* variant: a restricted visibility loses its restriction clause
print_vis_pub_only(vis) ==
    CASE vis.kind = "Public" -> "pub "
      [] vis.kind = "Restricted" -> "pub "
      [] vis.kind = "Inherited" -> ""

print_vis(vis) ==
    CASE vis.kind = "Public" -> "pub "
      [] vis.kind = "Restricted" -> to_string(vis.tokens) \o " "
      [] vis.kind = "Inherited" -> ""

\* ToTokens of syn::Signature: qualifiers, `fn`, name, parameter group, return type
sig_tokens(sig) == sig.quals \o <<"fn", sig.ident, sig.inputs>> \o sig.output

print_item_fn(f, indent_level) ==
    print_doc_attrs(f.attrs, indent_level)
    \o <<indent(indent_level) \o print_vis(f.vis) \o to_string(sig_tokens(f.sig)) \o ";">>

\* ToTokens of syn::Visibility
vis_tokens(vis) ==
    CASE vis.kind = "Public" -> <<"pub">>
      [] vis.kind = "Restricted" -> vis.tokens
      [] vis.kind = "Inherited" -> <<>>

\* ToTokens of one syn::Field
field_tokens(fd) ==
    attrs_tokens(fd.attrs) \o vis_tokens(fd.vis)
    \o (IF fd.ident = "" THEN <<>> ELSE <<fd.ident, ":">>) \o fd.ty

\* ToTokens of syn::Fields
fields_tokens(fields) ==
    LET inner == punctuated([i \in 1..Len(fields.list) |-> field_tokens(fields.list[i])],
                            fields.trailing)
    IN  CASE fields.kind = "Named" -> <<"{">> \o inner \o <<"}">>
          [] fields.kind = "Unnamed" -> <<"(" \o to_string(inner) \o ")">>
          [] fields.kind = "Unit" -> <<>>

\* variant: the where-clause of a unit struct is written before the `;`
print_item_struct_where_first(s, indent_level) ==
    print_doc_attrs(s.attrs, indent_level)
    \o (IF s.fields.kind \in {"Named", "Unnamed"}
        THEN <<indent(indent_level) \o print_vis(s.vis) \o "struct " \o s.ident
               \o to_string(s.generics) \o " " \o to_string(fields_tokens(s.fields))
               \o to_string(s.where)>>
        ELSE <<indent(indent_level) \o print_vis(s.vis) \o "struct " \o s.ident
               \o to_string(s.generics)
               \o (IF s.where # <<>> THEN " " \o to_string(s.where) ELSE "") \o ";">>)

print_item_struct(s, indent_level) ==
    print_doc_attrs(s.attrs, indent_level)
    \o (IF s.fields.kind \in {"Named", "Unnamed"}
        THEN <<indent(indent_level) \o print_vis(s.vis) \o "struct " \o s.ident
               \o to_string(s.generics) \o " " \o to_string(fields_tokens(s.fields))
               \o to_string(s.where)>>
        ELSE <<indent(indent_level) \o print_vis(s.vis) \o "struct " \o s.ident
               \o to_string(s.generics) \o ";"
               \o (IF s.where # <<>> THEN " " \o to_string(s.where) ELSE "")>>)

\* ToTokens of one syn::Variant: its attributes, name and payload
variant_tokens(v) == attrs_tokens(v.attrs) \o <<v.ident>> \o v.payload

RECURSIVE print_variants(_, _)
print_variants(variants, indent_level) ==
    IF variants = <<>> THEN <<>>
    ELSE LET v == Head(variants)
         IN  print_doc_attrs(v.attrs, indent_level + 1)
             \o <<indent(indent_level + 1) \o to_string(variant_tokens(v))>>
             \o print_variants(Tail(variants), indent_level)

print_item_enum(e, indent_level) ==
    print_doc_attrs(e.attrs, indent_level)
    \o <<indent(indent_level) \o print_vis(e.vis) \o "enum " \o e.ident
         \o to_string(e.generics)
         \o (IF e.where # <<>> THEN " " \o to_string(e.where) ELSE "") \o " {">>
    \o print_variants(e.variants, indent_level)
    \o <<indent(indent_level) \o "}">>

\* variant: a method signature is written at the indentation of its block
print_method_sig_flat(sig, indent_level) ==
    indent(indent_level) \o "fn "
    \o trim_start_matches(to_string(sig_tokens(sig)), "fn ") \o ";"

\* the line written for one TraitItem::Fn / ImplItem::Fn signature
print_method_sig(sig, indent_level) ==
    indent(indent_level + 1) \o "fn "
    \o trim_start_matches(to_string(sig_tokens(sig)), "fn ") \o ";"

\* the `for item in &t.items` / `for item in &i.items` loops
RECURSIVE print_members(_, _)
print_members(items, indent_level) ==
    IF items = <<>> THEN <<>>
    ELSE LET m == Head(items)
         IN  (IF m.kind = "Fn"
              THEN print_doc_attrs(m.attrs, indent_level + 1)
                   \o <<print_method_sig(m.sig, indent_level)>>
              ELSE <<>>)
             \o print_members(Tail(items), indent_level)

print_item_trait(t, indent_level) ==
    print_doc_attrs(t.attrs, indent_level)
    \o <<indent(indent_level) \o print_vis(t.vis) \o "trait " \o t.ident
         \o to_string(t.generics)
         \o (IF t.supertraits # <<>> THEN ": " \o to_string(t.supertraits) ELSE "")
         \o (IF t.where # <<>> THEN " " \o to_string(t.where) ELSE "")
         \o " {">>
    \o print_members(t.items, indent_level)
    \o <<indent(indent_level) \o "}">>

impl_header(i) ==
    LET unsafety == IF i.unsafety THEN "unsafe" \o " " ELSE ""
    IN  IF i.trait_ # <<>>
        THEN unsafety \o "impl" \o to_string(i.generics) \o " "
             \o (IF i.trait_[1].bang THEN "!" ELSE "") \o " "
             \o to_string(i.trait_[1].path) \o " " \o "for" \o " " \o to_string(i.self_ty)
        ELSE unsafety \o "impl" \o to_string(i.generics) \o " " \o to_string(i.self_ty)

print_item_impl(i, indent_level) ==
    print_doc_attrs(i.attrs, indent_level)
    \o <<IF i.where # <<>>
         THEN indent(indent_level) \o impl_header(i) \o " " \o to_string(i.where) \o " {"
         ELSE indent(indent_level) \o impl_header(i) \o " {">>
    \o print_members(i.items, indent_level)
    \o <<indent(indent_level) \o "}">>

\* variant: an item of another kind leaves a `// [skipped]` line
print_item_marks_skipped(item, indent_level) ==
    CASE item.kind = "Fn" -> print_item_fn(item, indent_level)
      [] item.kind = "Struct" -> print_item_struct(item, indent_level)
      [] item.kind = "Enum" -> print_item_enum(item, indent_level)
      [] item.kind = "Trait" -> print_item_trait(item, indent_level)
      [] item.kind = "Impl" -> print_item_impl(item, indent_level)
      [] OTHER -> <<indent(indent_level) \o "// [skipped]">>

print_item(item, indent_level) ==
    CASE item.kind = "Fn" -> print_item_fn(item, indent_level)
      [] item.kind = "Struct" -> print_item_struct(item, indent_level)
      [] item.kind = "Enum" -> print_item_enum(item, indent_level)
      [] item.kind = "Trait" -> print_item_trait(item, indent_level)
      [] item.kind = "Impl" -> print_item_impl(item, indent_level)
      [] OTHER -> <<>>

(***************************************************************************)
(* Syntax trees the parser can return (syn::File.items), built from small  *)
(* pools of attributes, visibilities, signatures and members.              *)
(***************************************************************************)
Attr(path, meta, delim, args, lit, expr) ==
    [path |-> path, meta |-> meta, delim |-> delim, args |-> args, lit |-> lit, expr |-> expr]

\* `/// text`, which the lexer turns into #[doc = "text"] with the text escaped
Doc(text) == Attr("doc", "NameValue", "", <<>>, "Str", <<string_literal(text)>>)
\* #[doc = r" raw"]
DocRaw == Attr("doc", "NameValue", "", <<>>, "Str", <<"r\" raw\"">>)
\* #[doc = "\u{4_1}b\x43"suffix], whose value is ` AbC`
DocEscaped == Attr("doc", "NameValue", "", <<>>, "Str", <<"\" \\u{4_1}b\\x43\"suffix">>)
\* #[doc(hidden)]
DocHidden == Attr("doc", "List", "(", <<"hidden">>, "None", <<>>)
\* #[default]
Default == Attr("default", "Path", "", <<>>, "None", <<>>)
\* #[cfg_attr{test}]
Braced == Attr("cfg_attr", "List", "{", <<"test">>, "None", <<>>)
\* #[doc = include_str!("x.md")]
DocInclude == Attr("doc", "NameValue", "", <<>>, "None", <<"include_str", "!", "(\"x.md\")">>)
\* #[derive(Debug)]
Derive == Attr("derive", "List", "(", <<"Debug">>, "None", <<>>)

Inherited == [kind |-> "Inherited", tokens |-> <<>>]
Public == [kind |-> "Public", tokens |-> <<"pub">>]
PubCrate == [kind |-> "Restricted", tokens |-> <<"pub", "(crate)">>]
PubIn == [kind |-> "Restricted", tokens |-> <<"pub", "(in a :: b)">>]

VisPool == {Inherited, Public, PubCrate, PubIn}

AttrsPool ==
    { <<>>, <<Doc(" d1")>>, <<Doc(" d1"), Doc(" d2")>>, <<Derive, Doc(" say \"hi\"")>>,
      <<DocHidden, DocInclude, Default>>, <<DocRaw, DocEscaped, Braced>> }

QualsPool == { <<>>, <<"const">>, <<"async">>, <<"unsafe">>, <<"extern", "\"C\"">> }

SigPool ==
    { [quals |-> q, ident |-> "add", inputs |-> "(a : i32 , b : i32)",
       output |-> <<"->", "i32">>] : q \in QualsPool }
    \cup { [quals |-> q, ident |-> "run", inputs |-> "(& self)", output |-> <<>>]
           : q \in QualsPool }

Sig(q, name) == [quals |-> q, ident |-> name, inputs |-> "(& self)", output |-> <<>>]

\* generics and where-clause of a declaration
GenericsPool ==
    { [generics |-> <<>>, where |-> <<>>],
      [generics |-> <<"<", "T", ">">>, where |-> <<>>],
      [generics |-> <<"<", "T", ">">>, where |-> <<"where", "T", ":", "Copy">>] }

Field(attrs, vis, ident, ty) == [attrs |-> attrs, vis |-> vis, ident |-> ident, ty |-> ty]

FieldsPool ==
    { [kind |-> "Unit", list |-> <<>>, trailing |-> FALSE],
      [kind |-> "Named", list |-> <<>>, trailing |-> FALSE] }
    \cup { [kind |-> "Named",
            list |-> <<Field(<<Doc(" m1")>>, Public, "x", <<"i32">>),
                       Field(<<>>, Inherited, "y", <<"T">>)>>,
            trailing |-> t] : t \in BOOLEAN }
    \cup { [kind |-> "Unnamed",
            list |-> <<Field(<<>>, Inherited, "", <<"i32">>),
                       Field(<<Doc(" m1")>>, Public, "", <<"u8">>)>>,
            trailing |-> t] : t \in BOOLEAN }

Variant(attrs, ident, payload) == [attrs |-> attrs, ident |-> ident, payload |-> payload]

VariantsPool ==
    { <<>>,
      <<Variant(<<Doc(" m1")>>, "A", <<>>), Variant(<<>>, "B", <<>>)>>,
      <<Variant(<<>>, "A", <<>>),
        Variant(<<Doc(" m1"), Doc(" m2")>>, "B", <<"(i32)">>),
        Variant(<<Derive>>, "C", <<"{", "x", ":", "i32", "}">>)>>,
      <<Variant(<<Default>>, "A", <<>>),
        Variant(<<Doc(" say \"hi\""), Doc(" a\\b")>>, "B", <<>>)>> }

Method(attrs, vis, sig) == [kind |-> "Fn", attrs |-> attrs, vis |-> vis, sig |-> sig]
Assoc(what) == [kind |-> what, attrs |-> <<Doc(" m9")>>]

\* members of a trait (TraitItem, which carries no visibility)
TraitItemsPool ==
    { <<>>,
      <<Method(<<Doc(" m1")>>, Inherited, Sig(<<>>, "f")), Assoc("Type"),
        Method(<<>>, Inherited, Sig(<<>>, "g"))>>,
      <<Method(<<>>, Inherited, Sig(<<"async">>, "f")), Assoc("Const"),
        Method(<<Doc(" m1"), Doc(" m2")>>, Inherited, Sig(<<"unsafe">>, "g"))>>,
      <<Method(<<Doc(" m1")>>, Inherited, Sig(<<"const">>, "f")),
        Method(<<>>, Inherited, Sig(<<"extern", "\"C\"">>, "g")), Assoc("Macro")>> }

\* members of an impl block (ImplItem; its functions carry a visibility)
ImplItemsPool ==
    { [i \in 1..Len(ms) |->
         IF ms[i].kind = "Fn" THEN Method(ms[i].attrs, Public, ms[i].sig) ELSE ms[i]]
      : ms \in TraitItemsPool }

FnItems ==
    { [kind |-> "Fn", attrs |-> a, vis |-> v, sig |-> s]
      : a \in AttrsPool, v \in VisPool, s \in SigPool }

StructItems ==
    { [kind |-> "Struct", attrs |-> a, vis |-> v, ident |-> "Marker",
       generics |-> g.generics, where |-> g.where, fields |-> f]
      : a \in AttrsPool, v \in VisPool, g \in GenericsPool, f \in FieldsPool }

EnumItems ==
    { [kind |-> "Enum", attrs |-> a, vis |-> v, ident |-> "Shape",
       generics |-> g.generics, where |-> g.where, variants |-> vs]
      : a \in AttrsPool, v \in VisPool, g \in GenericsPool, vs \in VariantsPool }

TraitItems ==
    { [kind |-> "Trait", attrs |-> a, vis |-> v, ident |-> "Draw",
       generics |-> g.generics, where |-> g.where, supertraits |-> st, items |-> ms]
      : a \in AttrsPool, v \in VisPool, g \in GenericsPool,
        st \in { <<>>, <<"Clone", "+", "Send">> }, ms \in TraitItemsPool }

ImplItems ==
    { [kind |-> "Impl", attrs |-> a, unsafety |-> u, generics |-> g.generics,
       where |-> g.where, trait_ |-> tr, self_ty |-> <<"Shape">>, items |-> ms]
      : a \in AttrsPool, u \in BOOLEAN, g \in GenericsPool,
        tr \in { <<>>, <<[bang |-> FALSE, path |-> <<"Draw">>]>>,
                 <<[bang |-> TRUE, path |-> <<"Send">>]>> },
        ms \in ImplItemsPool }

\* items print_item has no arm for
OtherItems == { [kind |-> c, ident |-> "X"] : c \in {"Const", "Mod", "Use", "Type", "Macro"} }

\* the struct at the head of the program's own source file
TestStruct ==
    [kind |-> "Struct",
     attrs |-> <<Attr("allow", "List", "(", <<"dead_code">>, "None", <<>>)>>,
     vis |-> Inherited, ident |-> "TestStruct", generics |-> <<>>, where |-> <<>>,
     fields |-> [kind |-> "Named",
                 list |-> <<Field(<<>>, Public, "i", <<"Box", "<", "TestStruct", ">">>),
                            Field(<<>>, Inherited, "j", <<"Box", "<", "TestStruct", ">">>)>>,
                 trailing |-> TRUE]]

ItemSet ==
    FnItems \cup StructItems \cup EnumItems \cup TraitItems \cup ImplItems \cup OtherItems
    \cup {TestStruct}

Recognized(item) == item.kind \in {"Fn", "Struct", "Enum", "Trait", "Impl"}

\* one representative per kind, for files with several items
SampleFn == [kind |-> "Fn", attrs |-> <<Doc(" d1")>>, vis |-> Public,
             sig |-> [quals |-> <<>>, ident |-> "add", inputs |-> "(a : i32 , b : i32)",
                      output |-> <<"->", "i32">>]]
SampleStruct == [kind |-> "Struct", attrs |-> <<>>, vis |-> Inherited, ident |-> "Marker",
                 generics |-> <<>>, where |-> <<>>,
                 fields |-> [kind |-> "Unit", list |-> <<>>, trailing |-> FALSE]]
SampleEnum == [kind |-> "Enum", attrs |-> <<>>, vis |-> Public, ident |-> "Shape",
               generics |-> <<>>, where |-> <<>>,
               variants |-> <<Variant(<<Doc(" m1")>>, "A", <<>>), Variant(<<>>, "B", <<>>)>>]
SampleTrait == [kind |-> "Trait", attrs |-> <<>>, vis |-> PubCrate, ident |-> "Draw",
                generics |-> <<>>, where |-> <<>>, supertraits |-> <<>>,
                items |-> <<Method(<<Doc(" m1")>>, Inherited, Sig(<<>>, "f")), Assoc("Type"),
                            Method(<<>>, Inherited, Sig(<<>>, "g"))>>]
SampleImpl == [kind |-> "Impl", attrs |-> <<>>, unsafety |-> FALSE, generics |-> <<>>,
               where |-> <<>>, trait_ |-> <<[bang |-> FALSE, path |-> <<"Draw">>]>>,
               self_ty |-> <<"Shape">>,
               items |-> <<Method(<<>>, Public, Sig(<<>>, "g")),
                           Method(<<>>, Inherited, Sig(<<>>, "f"))>>]
SampleConst == [kind |-> "Const", ident |-> "X"]
SampleMod == [kind |-> "Mod", ident |-> "X"]

KindPool == {SampleFn, SampleStruct, SampleEnum, SampleTrait, SampleImpl, SampleConst, SampleMod}

RECURSIVE SeqsUpTo(_, _)
SeqsUpTo(S, n) ==
    IF n = 0 THEN { <<>> }
    ELSE LET shorter == SeqsUpTo(S, n - 1)
         IN  shorter \cup { Append(s, x) : s \in shorter, x \in S }

\* files of the printer specification: one item of any shape, or up to MaxItems samples
PrinterFiles == { <<it>> : it \in ItemSet } \cup SeqsUpTo(KindPool, MaxItems)

\* files the walk of the driver specification can meet
FilePool ==
    { <<>>, <<SampleConst, SampleMod>>, <<SampleFn, SampleStruct>>,
      <<SampleEnum, SampleConst, SampleImpl>> }

(***************************************************************************)
(* Paths and the directory walk.                                           *)
(***************************************************************************)
\* the directories the program may be started on
Roots == { ".", "proj", "proj/", "/srv//proj/." }

Digit(n) == SubSeq("0123456789", n + 1, n + 1)

\* what Path::components skips between two components: separators and `.`
RECURSIVE SkipBody(_)
SkipBody(s) ==
    IF StartsWith(s, "/") THEN SkipBody(SubSeq(s, 2, Len(s)))
    ELSE IF s = "." THEN ""
    ELSE IF StartsWith(s, "./") THEN SkipBody(SubSeq(s, 3, Len(s)))
    ELSE s

\* the next component of a path and the text behind it; comp = "" if there is none.
\* At the front, a leading `/` is the root component and a leading `.` is kept.
FirstComponent(s, front) ==
    IF front /\ StartsWith(s, "/") THEN [comp |-> "/", rest |-> SubSeq(s, 2, Len(s))]
    ELSE IF front /\ (s = "." \/ StartsWith(s, "./"))
         THEN [comp |-> ".", rest |-> SubSeq(s, 2, Len(s))]
    ELSE LET body == SkipBody(s)
             sep == IndexOf(body, "/")
         IN  IF sep = 0 THEN [comp |-> body, rest |-> ""]
             ELSE [comp |-> SubSeq(body, 1, sep - 1), rest |-> SubSeq(body, sep, Len(body))]

RECURSIVE ComponentsFrom(_, _)
ComponentsFrom(s, front) ==
    LET first == FirstComponent(s, front)
    IN  IF first.comp = "" THEN <<>>
        ELSE <<first.comp>> \o ComponentsFrom(first.rest, FALSE)

\* Path::components
components(path) == ComponentsFrom(path, TRUE)

\* trailing separators and `.` components, which Components::as_path leaves out
RECURSIVE TrimRight(_)
TrimRight(s) ==
    IF Len(s) > 1 /\ (EndsWith(s, "/") \/ EndsWith(s, "/."))
    THEN TrimRight(SubSeq(s, 1, Len(s) - 1)) ELSE s

\* Components::as_path after n components have been taken from the front
RECURSIVE as_path_after(_, _, _)
as_path_after(s, front, n) ==
    IF n = 0 THEN TrimRight(IF front THEN s ELSE SkipBody(s))
    ELSE as_path_after(FirstComponent(s, front).rest, FALSE, n - 1)

\* Path::join of a relative path
join(base, rel) ==
    IF base = "" THEN rel
    ELSE IF EndsWith(base, "/") THEN base \o rel
    ELSE base \o "/" \o rel

\* Path::file_name: the last component if it is a normal one; <<>> is None
file_name(path) ==
    LET comps == components(path)
    IN  IF comps = <<>> \/ comps[Len(comps)] \in {"/", ".", ".."} THEN <<>>
        ELSE <<comps[Len(comps)]>>

\* Path::extension: <<>> is None, <<e>> is Some(e); a name such as `.rs` has none
extension(path) ==
    IF file_name(path) = <<>> THEN <<>>
    ELSE LET name == file_name(path)[1]
             dot == LastIndexOf(name, ".")
         IN  IF dot <= 1 THEN <<>> ELSE <<SubSeq(name, dot + 1, Len(name))>>

\* Path::strip_prefix, by components: <<>> is Err, <<rel>> is Ok(rel)
strip_prefix(path, base) ==
    LET pcs == components(path)
        bcs == components(base)
    IN  IF Len(bcs) <= Len(pcs) /\ SubSeq(pcs, 1, Len(bcs)) = bcs
        THEN <<as_path_after(path, TRUE, Len(bcs))>>
        ELSE <<>>

\* the filter of the walk: .filter_map(|e| e.ok()).filter(|e| extension == "rs")
passes_filter(e) == e.kind = "Ok" /\ extension(e.path) = <<"rs">>

\* what WalkDir can produce as its n-th entry: an error, a path that is no
\* .rs file, or a .rs file that is unreadable, unparsable or parses to a File
WalkErr == [kind |-> "Err"]

OtherEntries(n) ==
    { [kind |-> "Ok", path |-> join(root, r), rel |-> r, readable |-> TRUE,
       parses |-> FALSE, items |-> <<>>]
      : r \in { "d" \o Digit(n), "n" \o Digit(n) \o ".txt", "d" \o Digit(n) \o "/.rs" } }

\* the n-th source file, relative to the root
RsRel(n) == "src/f" \o Digit(n) \o ".rs"

RsEntry(n, readable, parses, items) ==
    [kind |-> "Ok", path |-> join(root, RsRel(n)), rel |-> RsRel(n),
     readable |-> readable, parses |-> parses,
     items |-> items]

RsEntries(n) ==
    { RsEntry(n, FALSE, FALSE, <<>>), RsEntry(n, TRUE, FALSE, <<>>) }
    \cup { RsEntry(n, TRUE, TRUE, f) : f \in FilePool }

entry == walked[Len(walked)]    \* the `entry` of the current iteration

header_line(path) ==
    LET rel == strip_prefix(path, root)
    IN  "// ************* " \o (IF rel # <<>> THEN rel[1] ELSE path)

(***************************************************************************)
(* main, one action per step of its loop.                                  *)
(***************************************************************************)
Init ==
    /\ root \in Roots
    /\ walked = <<>>
    /\ pc = "walk"
    /\ file = <<>>
    /\ k = 1
    /\ out = <<>>
    /\ err = ""
    /\ exit = -1

\* variant: a walk error is propagated instead of being filtered out
WalkFiltered_Aborts ==
    /\ pc = "walk"
    /\ Len(walked) < MaxEntries
    /\ \E e \in {WalkErr} \cup OtherEntries(Len(walked) + 1) :
          /\ ~passes_filter(e)
          /\ walked' = Append(walked, e)
          /\ IF e.kind = "Err"
             THEN pc' = "failed" /\ err' = "walk error" /\ exit' = 1
             ELSE UNCHANGED <<pc, err, exit>>
    /\ UNCHANGED <<root, file, k, out>>

\* the iterator produces an entry the filters drop
WalkFiltered ==
    /\ pc = "walk"
    /\ Len(walked) < MaxEntries
    /\ \E e \in {WalkErr} \cup OtherEntries(Len(walked) + 1) :
          /\ ~passes_filter(e)
          /\ walked' = Append(walked, e)
    /\ UNCHANGED <<root, pc, file, k, out, err, exit>>

\* the iterator produces a .rs entry: the loop body starts
WalkYield ==
    /\ pc = "walk"
    /\ Len(walked) < MaxEntries
    /\ \E e \in RsEntries(Len(walked) + 1) :
          /\ passes_filter(e)
          /\ walked' = Append(walked, e)
    /\ pc' = "read"
    /\ UNCHANGED <<root, file, k, out, err, exit>>

\* the iterator is exhausted: main returns Ok(())
WalkEnd ==
    /\ pc = "walk"
    /\ pc' = "done"
    /\ exit' = 0
    /\ UNCHANGED <<root, walked, file, k, out, err>>

ReadOk ==
    /\ pc = "read"
    /\ entry.readable
    /\ pc' = "parse"
    /\ UNCHANGED <<root, walked, file, k, out, err, exit>>

\* variant: an unreadable file is skipped and the walk goes on
ReadFail_Skips ==
    /\ pc = "read"
    /\ ~entry.readable
    /\ pc' = "walk"
    /\ UNCHANGED <<root, walked, file, k, out, err, exit>>

\* fs::read_to_string fails: `?` returns the error with its context from main
ReadFail ==
    /\ pc = "read"
    /\ ~entry.readable
    /\ pc' = "failed"
    /\ err' = "Failed to read " \o entry.path
    /\ exit' = 1
    /\ UNCHANGED <<root, walked, file, k, out>>

ParseOk ==
    /\ pc = "parse"
    /\ entry.parses
    /\ file' = entry.items
    /\ pc' = "header"
    /\ UNCHANGED <<root, walked, k, out, err, exit>>

\* variant: the header is written before the file is parsed
ParseFail_AfterHeader ==
    /\ pc = "parse"
    /\ ~entry.parses
    /\ out' = Append(out, header_line(entry.path))
    /\ pc' = "failed"
    /\ err' = "Failed to parse " \o entry.path
    /\ exit' = 1
    /\ UNCHANGED <<root, walked, file, k>>

ParseFail ==
    /\ pc = "parse"
    /\ ~entry.parses
    /\ pc' = "failed"
    /\ err' = "Failed to parse " \o entry.path
    /\ exit' = 1
    /\ UNCHANGED <<root, walked, file, k, out>>

\* variant: no header for a file without items
PrintHeader_UnlessEmpty ==
    /\ pc = "header"
    /\ out' = IF file = <<>> THEN out ELSE Append(out, header_line(entry.path))
    /\ k' = 1
    /\ pc' = "items"
    /\ UNCHANGED <<root, walked, file, err, exit>>

PrintHeader ==
    /\ pc = "header"
    /\ out' = Append(out, header_line(entry.path))
    /\ k' = 1
    /\ pc' = "items"
    /\ UNCHANGED <<root, walked, file, err, exit>>

\* one iteration of `for item in file.items`
PrintItem ==
    /\ pc = "items"
    /\ k <= Len(file)
    /\ out' = out \o print_item(file[k], 0)
    /\ k' = k + 1
    /\ UNCHANGED <<root, walked, pc, file, err, exit>>

\* the item loop ends; the file is dropped and the walk resumes
EndItems ==
    /\ pc = "items"
    /\ k > Len(file)
    /\ pc' = "walk"
    /\ file' = <<>>
    /\ k' = 1
    /\ UNCHANGED <<root, walked, out, err, exit>>

Next ==
    \/ WalkFiltered
    \/ WalkYield
    \/ WalkEnd
    \/ ReadOk
    \/ ReadFail
    \/ ParseOk
    \/ ParseFail
    \/ PrintHeader
    \/ PrintItem
    \/ EndItems

Spec == Init /\ [][Next]_vars

(***************************************************************************)
(* The printer on its own: a tree that holds one readable, parsable source *)
(* file, whose contents range over PrinterFiles.                           *)
(***************************************************************************)
InitPrinter ==
    /\ root = "."
    /\ \E f \in PrinterFiles : walked = <<RsEntry(1, TRUE, TRUE, f)>>
    /\ pc = "read"
    /\ file = <<>>
    /\ k = 1
    /\ out = <<>>
    /\ err = ""
    /\ exit = -1

\* the walk of a one-file tree ends after its file
WalkEndOne ==
    /\ Len(walked) = 1
    /\ WalkEnd

NextPrinter ==
    \/ ReadOk
    \/ ParseOk
    \/ PrintHeader
    \/ PrintItem
    \/ EndItems
    \/ WalkEndOne

SpecPrinter == InitPrinter /\ [][NextPrinter]_vars

(***************************************************************************)
(* Vocabulary of the properties.                                           *)
(***************************************************************************)
\* the source files the walk has handed to the loop body, in discovery order
Discovered == SelectSeq(walked, passes_filter)

FileOk(e) == e.readable /\ e.parses

Marker == "// ************* "

IsHeader(line) == StartsWith(line, Marker)

\* the complete block of one source file: its header, then its declarations
Block(e) ==
    <<Marker \o e.rel>>
    \o Concat([i \in 1..Len(e.items) |-> print_item(e.items[i], 0)])

BlocksOf(files) == Concat([i \in 1..Len(files) |-> Block(files[i])])

\* a doc comment: #[doc = "text"]
IsDoc(a) == a.path = "doc" /\ a.meta = "NameValue" /\ a.lit = "Str"

DocTexts(attrs) ==
    LET docs == SelectSeq(attrs, IsDoc) IN [i \in 1..Len(docs) |-> str_value(docs[i].expr[1])]

RECURSIVE LeadingSpaces(_)
LeadingSpaces(line) ==
    IF StartsWith(line, " ") THEN 1 + LeadingSpaces(SubSeq(line, 2, Len(line))) ELSE 0

IsDocLine(line) == StartsWith(SubSeq(line, LeadingSpaces(line) + 1, Len(line)), "/// ")

\* a run over a tree with one source file has ended normally
OneFileDone == Len(walked) = 1 /\ passes_filter(walked[1]) /\ pc = "done"

\* ... and that file holds exactly one item, of one of the given kinds
OneItemDone(kinds) ==
    /\ OneFileDone
    /\ Len(walked[1].items) = 1
    /\ walked[1].items[1].kind \in kinds

TheItem == walked[1].items[1]

\* what was written after the header line
Body == IF out = <<>> THEN <<>> ELSE Tail(out)

\* the functions among the members of a trait or impl block
IsFn(m) == m.kind = "Fn"

(***************************************************************************)
(* C1  The first discovered file that cannot be read or parsed ends the    *)
(* run: it is the last file the walk hands out, nothing further can        *)
(* happen, the exit status is non-zero and the error names its path; a run *)
(* in which no file fails ends with exit status 0.                         *)
(***************************************************************************)
C1_FirstFailureEndsRun ==
    LET files == Discovered
    IN  /\ \A i \in 1..Len(files) :
              ~FileOk(files[i]) =>
                  /\ i = Len(files)
                  /\ pc \in {"read", "parse", "failed"}
        /\ pc = "failed" =>
              /\ ~FileOk(entry)
              /\ exit = 1
              /\ Contains(err, entry.path)
              /\ Len(SelectSeq(out, IsHeader)) = Len(files) - 1
              /\ ~ENABLED Next
        /\ pc = "done" =>
              /\ exit = 0
              /\ err = ""
              /\ \A i \in 1..Len(files) : FileOk(files[i])
        /\ exit = 0 => pc = "done"
        /\ exit = -1 => pc \notin {"done", "failed"}

C1_Witness ==
    /\ pc = "failed"
    /\ Len(Discovered) >= 2
    /\ Len(out) >= 2

(***************************************************************************)
(* C2  When a file fails to read or parse nothing is written for it, and   *)
(* the output at the abort is exactly the complete blocks of the files     *)
(* before it.                                                              *)
(***************************************************************************)
C2_OutputAtAbort ==
    pc \in {"read", "parse", "failed"} =>
        out = BlocksOf(SubSeq(Discovered, 1, Len(Discovered) - 1))

C2_Witness ==
    /\ pc = "failed"
    /\ entry.readable
    /\ Len(out) >= 3
    /\ \E i \in 1..Len(walked) : walked[i].kind = "Ok" /\ walked[i].items # <<>>

(***************************************************************************)
(* C4  A run without a failing file writes one block per discovered source *)
(* file, in discovery order; every block starts with its one header line   *)
(* (marker and path relative to the root), also for a file without         *)
(* recognized declarations; a tree without source files gives empty output *)
(* and exit status 0.                                                      *)
(***************************************************************************)
C4_OneBlockPerFile ==
    LET files == Discovered
        started == IF pc \in {"read", "parse", "header", "failed"}
                   THEN Len(files) - 1 ELSE Len(files)
        headers == SelectSeq(out, IsHeader)
    IN  /\ headers = [i \in 1..started |->
                        Marker \o files[i].rel]
        /\ out # <<>> => IsHeader(out[1])
        /\ pc = "done" =>
              /\ out = BlocksOf(files)
              /\ files = <<>> => out = <<>> /\ exit = 0

C4_Witness ==
    /\ pc = "done"
    /\ Len(Discovered) >= 2
    /\ Discovered[1].items = <<SampleConst, SampleMod>>
    /\ Len(out) > 2

(***************************************************************************)
(* C5 as stated: no path that cannot be read ends the run in an error.     *)
(***************************************************************************)
C5_Original == ~(pc = "failed" /\ ~entry.readable)

(***************************************************************************)
(* C5 amended: what the walk itself cannot read (a walk error) is skipped  *)
(* without a trace and the other source files are still processed; only a  *)
(* discovered .rs file that cannot be read or parsed ends the run in an    *)
(* error.                                                                  *)
(***************************************************************************)
C5_WalkErrorsSkipped ==
    /\ pc = "failed" => passes_filter(entry) /\ ~FileOk(entry)
    /\ (walked # <<>> /\ ~passes_filter(entry)) =>
          /\ pc \in {"walk", "done"}
          /\ err = ""
          /\ exit \in {-1, 0}
    /\ pc = "done" => Len(SelectSeq(out, IsHeader)) = Len(Discovered)

C5_Witness ==
    /\ pc = "done"
    /\ \E i \in 1..Len(walked) : \E j \in 1..Len(walked) :
          /\ i < j
          /\ walked[i].kind = "Err"
          /\ passes_filter(walked[j])
          /\ walked[j].items # <<>>
    /\ Len(out) >= 2

(***************************************************************************)
(* Properties of the printer, stated on the output of a finished run over  *)
(* one source file (specification SpecPrinter).                            *)
(***************************************************************************)
\* a declaration line: at depth 0, no doc line, no closing brace
IsDeclLine(line) == LeadingSpaces(line) = 0 /\ ~IsDocLine(line) /\ line # "}"

\* a member line: at depth 1, no doc line
IsMemberLine(line) == LeadingSpaces(line) = 4 /\ ~IsDocLine(line)

\* the words by which the declaration line of an item is recognized
KeyOf(item) ==
    CASE item.kind = "Fn" -> "fn " \o item.sig.ident \o " "
      [] item.kind = "Struct" -> "struct " \o item.ident
      [] item.kind = "Enum" -> "enum " \o item.ident
      [] item.kind = "Trait" -> "trait " \o item.ident
      [] item.kind = "Impl" -> "impl"

\* the names of the members an enum, trait or impl block renders, in source order
MemberNames(item) ==
    CASE item.kind = "Enum" ->
            [i \in 1..Len(item.variants) |-> item.variants[i].ident]
      [] item.kind \in {"Trait", "Impl"} ->
            LET fns == SelectSeq(item.items, IsFn)
            IN  [i \in 1..Len(fns) |-> " " \o fns[i].sig.ident \o " ("]
      [] OTHER -> <<>>

(***************************************************************************)
(* C3  The declarations written for a file are its recognized top-level    *)
(* items in source order, unrecognized items write nothing and raise no    *)
(* error, and the members of an enum, trait or impl block appear in source *)
(* order.                                                                  *)
(***************************************************************************)
C3_SourceOrder ==
    OneFileDone =>
        LET items == walked[1].items
            kept == SelectSeq(items, Recognized)
            decls == SelectSeq(Body, IsDeclLine)
            members == SelectSeq(Body, IsMemberLine)
        IN  /\ exit = 0 /\ err = ""
            /\ Len(decls) = Len(kept)
            /\ \A i \in 1..Len(kept) : Contains(decls[i], KeyOf(kept[i]))
            /\ kept = <<>> => Body = <<>>
            /\ Len(items) = 1 /\ kept # <<>> =>
                  /\ Len(members) = Len(MemberNames(items[1]))
                  /\ \A i \in 1..Len(members) :
                        Contains(members[i], MemberNames(items[1])[i])

C3_Witness ==
    /\ OneFileDone
    /\ walked[1].items = <<SampleTrait, SampleConst, SampleFn>>
    /\ Len(Body) = 7

(***************************************************************************)
(* C6  Every doc comment of a rendered declaration or member is written as *)
(* its own `/// ` line right before that declaration or member, at its     *)
(* indentation, and nowhere else in the output.                            *)
(***************************************************************************)
\* the doc comments of the members of a declaration (fields, variants, methods)
MemberDocs(item) ==
    CASE item.kind = "Struct" ->
            Concat([i \in 1..Len(item.fields.list) |-> DocTexts(item.fields.list[i].attrs)])
      [] item.kind = "Enum" ->
            Concat([i \in 1..Len(item.variants) |-> DocTexts(item.variants[i].attrs)])
      [] item.kind \in {"Trait", "Impl"} ->
            LET fns == SelectSeq(item.items, IsFn)
            IN  Concat([i \in 1..Len(fns) |-> DocTexts(fns[i].attrs)])
      [] OTHER -> <<>>

C6_DocLines ==
    OneItemDone({"Fn", "Struct", "Enum", "Trait", "Impl"}) =>
        LET own == DocTexts(TheItem.attrs)
            inner == MemberDocs(TheItem)
            docLines == SelectSeq(Body, IsDocLine)
        IN  /\ docLines = [i \in 1..Len(own) |-> "/// " \o own[i]]
                          \o [i \in 1..Len(inner) |-> "    /// " \o inner[i]]
            /\ \A i \in 1..Len(own) : Body[i] = "/// " \o own[i]
            /\ \A i \in 1..Len(Body) :
                  ~IsDocLine(Body[i]) =>
                      /\ ~Contains(Body[i], "doc = ")
                      /\ i > 1 /\ IsDocLine(Body[i - 1]) =>
                            LeadingSpaces(Body[i - 1]) = LeadingSpaces(Body[i])

(***************************************************************************)
(* C7  Every line is written at depth 0 or 1: declaration lines, their doc *)
(* lines and closing braces at depth 0, the members of a block and their   *)
(* doc lines one level (4 spaces) deeper.                                  *)
(***************************************************************************)
DocCount(attrs) == Len(SelectSeq(attrs, IsDoc))

Zeros(n) == [i \in 1..n |-> 0]

Fours(n) == [i \in 1..n |-> 4]

\* the indentation each line of a declaration is to have
ExpectedIndents(item) ==
    LET members ==
            CASE item.kind = "Enum" -> item.variants
              [] item.kind \in {"Trait", "Impl"} -> SelectSeq(item.items, IsFn)
              [] OTHER -> <<>>
        inner == Concat([i \in 1..Len(members) |-> Fours(DocCount(members[i].attrs) + 1)])
    IN  Zeros(DocCount(item.attrs) + 1)
        \o (IF item.kind \in {"Enum", "Trait", "Impl"} THEN inner \o <<0>> ELSE <<>>)

C7_DepthZeroOrOne ==
    /\ \A i \in 1..Len(out) : LeadingSpaces(out[i]) \in {0, 4}
    /\ OneItemDone({"Fn", "Struct", "Enum", "Trait", "Impl"}) =>
          [i \in 1..Len(Body) |-> LeadingSpaces(Body[i])] = ExpectedIndents(TheItem)

C7_Witness ==
    /\ OneItemDone({"Trait"})
    /\ Len(SelectSeq(Body, IsMemberLine)) = 2
    /\ \E i \in 1..Len(Body) : IsDocLine(Body[i]) /\ LeadingSpaces(Body[i]) = 4
    /\ \E i \in 1..Len(Body) : IsDocLine(Body[i]) /\ LeadingSpaces(Body[i]) = 0

(***************************************************************************)
(* C8  Every function member of a trait or impl block writes exactly one   *)
(* line: the tokens of its signature, whatever its qualifiers, followed by *)
(* `;`; other members write no line.                                       *)
(***************************************************************************)
C8_MethodSignatures ==
    OneItemDone({"Trait", "Impl"}) =>
        LET fns == SelectSeq(TheItem.items, IsFn)
        IN  SelectSeq(Body, IsMemberLine)
              = [i \in 1..Len(fns) |-> "    " \o to_string(sig_tokens(fns[i].sig)) \o ";"]

(***************************************************************************)
(* C9  The declaration line of a fn, struct, enum or trait starts with the *)
(* visibility: nothing, `pub`, or the tokens of the restriction clause;    *)
(* the rest of the line is the same for every visibility.                  *)
(***************************************************************************)
ExpectedVis(vis) ==
    CASE vis.kind = "Inherited" -> ""
      [] vis.kind = "Public" -> "pub "
      [] vis.kind = "Restricted" -> to_string(vis.tokens) \o " "

\* how the rest of the declaration line starts
KeywordOf(item) ==
    CASE item.kind = "Fn" -> to_string(item.sig.quals \o <<"fn">>) \o " "
      [] item.kind = "Struct" -> "struct "
      [] item.kind = "Enum" -> "enum "
      [] item.kind = "Trait" -> "trait "

C9_VisibilityFirst ==
    OneItemDone({"Fn", "Struct", "Enum", "Trait"}) =>
        LET n == DocCount(TheItem.attrs)
            line == Body[n + 1]
            private == print_item([TheItem EXCEPT !.vis = Inherited], 0)[n + 1]
        IN  /\ Len(Body) > n
            /\ line = ExpectedVis(TheItem.vis) \o private
            /\ StartsWith(private, KeywordOf(TheItem))

C9_Witness ==
    /\ OneItemDone({"Fn", "Struct", "Enum", "Trait"})
    /\ TheItem.vis = PubCrate
    /\ \E i \in 1..Len(Body) : StartsWith(Body[i], "pub (crate) ")

(***************************************************************************)
(* C10 as stated: the unit struct `struct Marker;` yields `struct Marker ;`*)
(***************************************************************************)
C10_Original ==
    (OneFileDone /\ walked[1].items = <<SampleStruct>>) => Body = <<"struct Marker ;">>

(***************************************************************************)
(* C10 amended: a unit struct writes one declaration line, visibility,     *)
(* `struct`, name and generics with the `;` directly behind them and the   *)
(* where-clause, if any, trailing; no field list in braces or parentheses. *)
(* `struct Marker;` yields `struct Marker;`.                               *)
(***************************************************************************)
C10_UnitStruct ==
    (OneItemDone({"Struct"}) /\ TheItem.fields.kind = "Unit") =>
        LET n == DocCount(TheItem.attrs)
            line == Body[n + 1]
            decl == SubSeq(line, Len(ExpectedVis(TheItem.vis)) + 1, Len(line))
        IN  /\ Len(Body) = n + 1
            /\ StartsWith(line, ExpectedVis(TheItem.vis))
            /\ StartsWith(decl, "struct " \o TheItem.ident \o to_string(TheItem.generics) \o ";")
            /\ TheItem.where = <<>> => EndsWith(decl, ";")
            /\ TheItem.where # <<>> => EndsWith(decl, "; " \o to_string(TheItem.where))
            /\ ~Contains(decl, "{") /\ ~Contains(decl, "(")
            /\ TheItem = SampleStruct => Body = <<"struct Marker;">>

C10_Witness ==
    /\ OneItemDone({"Struct"})
    /\ TheItem.fields.kind = "Unit"
    /\ TheItem.where # <<>>
    /\ TheItem.vis = Public
    /\ Len(Body) = 1

====
